---------------------------- MODULE Spec2Model ----------------------------
(***************************************************************************)
(* A model of gen_j74_mapping.py: the progression mini-language parser,    *)
(* the Markov walk, the mode/borrow classifier and router, the slot-id     *)
(* arithmetic and the command-line driver main().                          *)
(*                                                                         *)
(* Text is modelled as a sequence of one-character strings, so that the    *)
(* regular expressions and string conversions of the source are computed   *)
(* character by character, the way the source computes them.  The degree   *)
(* sign U+00B0 is written "o".                                             *)
(***************************************************************************)
EXTENDS Integers, Sequences, FiniteSets, TLC

VARIABLES
  \* parse_progression harness
  spec_in,      \* the text handed to parse_progression
  ppc,          \* "ready" | "done" ("idle" when the harness is not used)
  toks,         \* Parser.toks
  presult,      \* what parse_expr returned: [ok, out, i, err]
  \* the random module
  rng,          \* state of the process-wide generator
  \* markov_generate harness
  mkProbe,      \* the arguments whose calls are compared
  mkFirst,      \* None, or the first call with mkProbe: <<[result, before]>>
  mkCall,       \* None, or the latest call: <<[args, result, before]>>
  \* _split_borrowing harness
  clsSeq,       \* the degree sequence classified
  clsMode,      \* None or <<mode name>>
  clsOut,       \* None, or <<in_mode, borrowed>> as returned
  \* slot_id harness
  slotA,        \* a slot [quality, section, col0, row1]
  slotB,        \* None, or <<a second slot>>
  slotIds,      \* None, or <<slot_id(slotA), slot_id(slotB)>>
  \* main()
  args,         \* the parsed command line
  pc,           \* "start" | "built" | "routed" | "emitted" | "written" | "aborted"
  deg_seq,      \* the degree sequence
  split,        \* None, or <<in_mode, borrowed>> of the routing branch
  sections,     \* the sections to emit
  section_to_cols,  \* dict section -> columns
  text,         \* None, or <<the lines of the mapping text>>
  outfile,      \* None, or <<the lines written to the mapping file>>
  failed,       \* None, or <<the step that raised>>
  steps         \* the steps completed so far, in order

parseVars == <<spec_in, ppc, toks, presult>>
markovVars == <<mkProbe, mkFirst, mkCall>>
classifyVars == <<clsSeq, clsMode, clsOut>>
slotVars == <<slotA, slotB, slotIds>>
mainVars == <<args, pc, deg_seq, split, sections, section_to_cols, text, outfile,
              failed, steps>>
vars == <<spec_in, ppc, toks, presult, rng, mkProbe, mkFirst, mkCall,
          clsSeq, clsMode, clsOut, slotA, slotB, slotIds,
          args, pc, deg_seq, split, sections, section_to_cols, text, outfile,
          failed, steps>>

-----------------------------------------------------------------------------
(* Bounds of the model *)

MaxLex == 6           \* most lexemes in a text handed to parse_progression
RngMod == 8           \* number of states of the random generator
MaxLength == 3        \* longest Markov walk asked for
MaxSeed == 1          \* largest seed
MaxSeq == 3           \* longest degree sequence drawn as an input

-----------------------------------------------------------------------------
(* Characters and text helpers *)

Dim == "o"                                  \* the degree sign
Space == " "
Digits == <<"0","1","2","3","4","5","6","7","8","9">>

RECURSIVE CountLeading(_, _)
\* how many leading characters of s lie in set cs
CountLeading(s, cs) ==
  IF s = <<>> \/ Head(s) \notin cs THEN 0 ELSE 1 + CountLeading(Tail(s), cs)

RECURSIVE CountTrailing(_, _)
CountTrailing(s, cs) ==
  IF s = <<>> \/ s[Len(s)] \notin cs THEN 0
  ELSE 1 + CountTrailing(SubSeq(s, 1, Len(s) - 1), cs)

DropLeading(s, cs) == SubSeq(s, CountLeading(s, cs) + 1, Len(s))
DropTrailing(s, cs) == SubSeq(s, 1, Len(s) - CountTrailing(s, cs))

\* str.strip()
strip(s) == DropTrailing(DropLeading(s, {Space}), {Space})

\* str.upper() on the characters of the model's alphabet
UpperChar(c) ==
  CASE c = "i" -> "I"
    [] c = "v" -> "V"
    [] c = "b" -> "B"
    [] c = "x" -> "X"
    [] OTHER -> c

upper(s) == [k \in 1..Len(s) |-> UpperChar(s[k])]

\* str.rstrip(chars)
rstrip(s, cs) == DropTrailing(s, cs)

-----------------------------------------------------------------------------
(* Degree syntax *)

Accidentals == {"b", "#"}
NumeralLetters == {"i", "v", "I", "V"}

\* ROMAN_RE.match(tok): ^[b#]*[ivIV]+(?:o)?$
ROMAN_RE(tok) ==
  LET rest == DropLeading(tok, Accidentals)
      body == IF rest # <<>> /\ rest[Len(rest)] = Dim
                THEN SubSeq(rest, 1, Len(rest) - 1) ELSE rest
  IN  /\ body # <<>>
      /\ \A k \in 1..Len(body) : body[k] \in NumeralLetters

\* re.sub(r"^[b#]+", "", deg)
_strip_accidentals(deg) == DropLeading(deg, Accidentals)

\* re.match(r"^[b#]+", d)
HasAccidental(d) == d # <<>> /\ d[1] \in Accidentals

RowMapping(up) ==
  CASE up = <<"I">> -> 1
    [] up = <<"I","I">> -> 2
    [] up = <<"I","I","I">> -> 3
    [] up = <<"I","V">> -> 4
    [] up = <<"V">> -> 5
    [] up = <<"V","I">> -> 6
    [] up = <<"V","I","I">> -> 7
    [] OTHER -> 0

\* _roman_to_row(deg): 1..7, or 0 for "raise ValueError(Unrecognized degree)"
_roman_to_row(deg) ==
  LET core == _strip_accidentals(deg)
      up == rstrip(upper(core), {Dim})
  IN  RowMapping(up)

-----------------------------------------------------------------------------
(* _tokenize *)

Structural == {"(", ")", ",", "*", "-"}

\* TOK.match(s, i): \s*([(),*-])\s* anchored at 0-based position i.
\* Returns [hit, tok, end] with end the 0-based position after the match.
TOK(s, i) ==
  LET rest == SubSeq(s, i + 1, Len(s))
      lead == CountLeading(rest, {Space})
      at == i + lead + 1                 \* 1-based place of the group
  IN  IF at <= Len(s) /\ s[at] \in Structural
        THEN [hit |-> TRUE, tok |-> s[at],
              end |-> at + CountLeading(SubSeq(s, at + 1, Len(s)), {Space})]
        ELSE [hit |-> FALSE, tok |-> "", end |-> i]

RECURSIVE TokLoop(_, _, _, _)
\* the while loop of _tokenize; returns the final <<out, buf>>
TokLoop(s, i, buf, out) ==
  IF i >= Len(s) THEN <<out, buf>>
  ELSE LET m == TOK(s, i)
       IN  IF m.hit
             THEN IF strip(buf) # <<>>
                    THEN TokLoop(s, m.end, <<>>, out \o <<strip(buf), <<m.tok>>>>)
                    ELSE TokLoop(s, m.end, buf, Append(out, <<m.tok>>))
             ELSE TokLoop(s, i + 1, Append(buf, s[i + 1]), out)

_tokenize(s) ==
  LET r == TokLoop(s, 0, <<>>, <<>>)
      out == IF strip(r[2]) # <<>> THEN Append(r[1], strip(r[2])) ELSE r[1]
  IN  [k \in 1..Len(out) |-> IF out[k] = <<"-">> THEN <<",">> ELSE out[k]]

-----------------------------------------------------------------------------
(* Parser *)

NoTok == <<>>                             \* peek() returning None

\* A parse state is [ok, out, i, err]: ok = FALSE stands for a raised ValueError.
POk(out, i) == [ok |-> TRUE, out |-> out, i |-> i, err |-> "none"]
PErr(i, why) == [ok |-> FALSE, out |-> <<>>, i |-> i, err |-> why]

peek(ts, i) == IF i < Len(ts) THEN ts[i + 1] ELSE NoTok

\* eat(val): val = NoTok stands for eat() without an argument
eat(ts, i, val) ==
  LET t == peek(ts, i)
  IN  IF t = NoTok THEN PErr(i, "Unexpected end of input")
      ELSE IF val # NoTok /\ t # val THEN PErr(i, "Expected")
      ELSE POk(t, i + 1)

RECURSIVE DigitValue(_, _)
DigitValue(c, k) ==
  IF k > 10 THEN -1 ELSE IF Digits[k] = c THEN k - 1 ELSE DigitValue(c, k + 1)

RECURSIVE IntOf(_)
\* int(tok) for a token of decimal digits; -1 stands for the ValueError int() raises
IntOf(t) ==
  IF t = <<>> THEN -1
  ELSE LET d == DigitValue(t[Len(t)], 1)
       IN  IF d < 0 THEN -1
           ELSE IF Len(t) = 1 THEN d
           ELSE LET hi == IntOf(SubSeq(t, 1, Len(t) - 1))
                IN  IF hi < 0 THEN -1 ELSE 10 * hi + d

\* list * n (n <= 0 gives the empty list)
Times(xs, n) ==
  IF n <= 0 \/ xs = <<>> THEN <<>>
  ELSE [k \in 1..(Len(xs) * n) |-> xs[((k - 1) % Len(xs)) + 1]]

RECURSIVE parse_expr(_, _)
RECURSIVE expr_loop(_, _)
RECURSIVE parse_column(_, _)
RECURSIVE column_loop(_, _)
RECURSIVE parse_item(_, _)
RECURSIVE parse_atom_or_group(_, _)

\* items += <next>: the list so far extended by what the next call returned; an
\* exception raised by that call propagates
Extend(acc, nxt) == IF nxt.ok THEN POk(acc.out \o nxt.out, nxt.i) ELSE nxt

\* lines 194-197: x = self.parse_expr(); self.eat(')'); return x
CloseGroup(ts, inside) ==
  IF ~inside.ok THEN inside
  ELSE LET close == eat(ts, inside.i, <<")">>)
       IN  IF ~close.ok THEN close ELSE POk(inside.out, close.i)

\* lines 198-199: tok = self.eat(); the ROMAN_RE test; return [tok]
AtomOf(tok) ==
  IF ~tok.ok THEN tok
  ELSE IF ~ROMAN_RE(tok.out) THEN PErr(tok.i, "Not a degree token")
  ELSE POk(<<tok.out>>, tok.i)

parse_atom_or_group(ts, i) ==
  IF peek(ts, i) = <<"(">>
    THEN CloseGroup(ts, parse_expr(ts, i + 1))
    ELSE AtomOf(eat(ts, i, NoTok))

\* a '*' whose multiplier is read and then not applied
Repeat_once(atomOut, ts, i) ==
  LET num == eat(ts, i, NoTok)
  IN  IF ~num.ok THEN num
      ELSE IF IntOf(num.out) < 0 THEN PErr(num.i, "invalid literal for int()")
      ELSE POk(atomOut, num.i)

\* the multiplier read by parse_item after '*': n = int(self.eat()); atom * n
Repeat(atomOut, ts, i) ==
  LET num == eat(ts, i, NoTok)
  IN  IF ~num.ok THEN num
      ELSE IF IntOf(num.out) < 0 THEN PErr(num.i, "invalid literal for int()")
      ELSE POk(Times(atomOut, IntOf(num.out)), num.i)

\* lines 190-192: if self.peek()=='*': ...; return atom
StarOf(ts, atom) ==
  IF ~atom.ok THEN atom
  ELSE IF peek(ts, atom.i) = <<"*">>
    THEN Repeat(atom.out, ts, atom.i + 1)
    ELSE atom

parse_item(ts, i) == StarOf(ts, parse_atom_or_group(ts, i))

\* the while loop of parse_column; st holds the items gathered and the position
column_loop(ts, st) ==
  IF ~st.ok THEN st
  ELSE IF peek(ts, st.i) \notin {NoTok, <<",">>, <<")">>}
    THEN column_loop(ts, Extend(st, parse_item(ts, st.i)))
    ELSE st

parse_column(ts, i) == column_loop(ts, parse_item(ts, i))

\* the while loop of parse_expr; st holds the columns gathered and the position
expr_loop(ts, st) ==
  IF ~st.ok THEN st
  ELSE IF peek(ts, st.i) = <<",">>
    THEN expr_loop(ts, Extend(st, parse_column(ts, st.i + 1)))
    ELSE st

parse_expr(ts, i) == expr_loop(ts, parse_column(ts, i))

\* parse_progression(spec) = Parser(_tokenize(spec)).parse_expr()
parse_progression(s) == parse_expr(_tokenize(s), 0)

-----------------------------------------------------------------------------
(* Optional arguments: None is <<>>, a given value x is <<x>> *)

None == <<>>
Some(x) == <<x>>

-----------------------------------------------------------------------------
(* Degrees named in the tables of the source *)

dI == <<"I">>
dII == <<"I","I">>
dIV == <<"I","V">>
dV == <<"V">>
dVI == <<"V","I">>
dVII == <<"V","I","I">>
di == <<"i">>
dii == <<"i","i">>
diii == <<"i","i","i">>
div == <<"i","v">>
dv == <<"v">>
dvi == <<"v","i">>
dvii == <<"v","i","i">>
dIII == <<"I","I","I">>
dbII == <<"b","I","I">>
dbVI == <<"b","V","I">>
dbVII == <<"b","V","I","I">>

-----------------------------------------------------------------------------
(* The process-wide generator of the random module.                        *)
(* Its state is one number below RngMod; seeding and drawing are the       *)
(* deterministic functions of that state that they are in the library.     *)

\* random.seed(seed): the state is a function of the seed alone
RandomSeed(seed) == (7 * seed + 1) % RngMod

\* random.random(): the state steps on; the draw is state / RngMod, in [0, 1)
RandomStep(state) == (5 * state + 3) % RngMod

-----------------------------------------------------------------------------
(* Markov chain.  A transition graph is a sequence of <<state, row>> in    *)
(* insertion order, a row a sequence of <<next, weight>>; weights are      *)
(* written in hundredths.                                                  *)

RECURSIVE SumWeights(_, _)
SumWeights(row, k) == IF k > Len(row) THEN 0 ELSE row[k][2] + SumWeights(row, k + 1)

\* normalize_row(row): [ok, row, sum]; a weight v becomes v / sum, kept as the
\* pair of v and sum.  ok = FALSE stands for the ValueError.
normalize_row(row) ==
  LET s == SumWeights(row, 1)
  IN  IF s <= 0 THEN [ok |-> FALSE, row |-> <<>>, sum |-> s]
      ELSE [ok |-> TRUE, row |-> row, sum |-> s]

\* probs.get(cur): the index of cur's row, 0 for None
RowIndex(trans, cur) ==
  IF \E k \in 1..Len(trans) : trans[k][1] = cur
    THEN CHOOSE k \in 1..Len(trans) : trans[k][1] = cur
    ELSE 0

\* random.choices(choices, weights, k=1)[0] with the draw state / RngMod:
\* bisect(cum_weights, draw * total, 0, n - 1) over the normalized weights
Choices(nrow, state) ==
  LET row == nrow.row
      n == Len(row)
      cum(k) == SumWeights(SubSeq(row, 1, k), 1)
      idx == Cardinality({k \in 1..(n - 1) : cum(k) * RngMod <= state * nrow.sum})
  IN  row[idx + 1][1]

RECURSIVE Walk_no_reset(_, _, _, _, _)
\* a walk that, on a dead end, samples the last row of the graph instead of
\* resetting to the first key
Walk_no_reset(trans, cur, seq, left, state) ==
  IF left <= 0 THEN [ok |-> TRUE, seq |-> seq, rng |-> state]
  ELSE LET at == IF RowIndex(trans, cur) = 0 THEN Len(trans)
                  ELSE RowIndex(trans, cur)
           nexts == normalize_row(trans[at][2])
           drawn == RandomStep(state)
           nxt == Choices(nexts, drawn)
       IN  Walk_no_reset(trans, nxt, Append(seq, nxt), left - 1, drawn)

RECURSIVE Walk(_, _, _, _, _)
\* the for loop of markov_generate: [ok, seq, rng]
Walk(trans, cur, seq, left, state) ==
  IF left <= 0 THEN [ok |-> TRUE, seq |-> seq, rng |-> state]
  ELSE LET at == IF RowIndex(trans, cur) = 0 THEN 1 ELSE RowIndex(trans, cur)
           nexts == normalize_row(trans[at][2])
           drawn == RandomStep(state)
           nxt == Choices(nexts, drawn)
       IN  Walk(trans, nxt, Append(seq, nxt), left - 1, drawn)

\* a call that forgets to seed the generator
SeedState_unseeded(seed, state) == state

\* if seed is not None: random.seed(seed) -- the generator state after that line
SeedState(seed, state) == IF seed # None THEN RandomSeed(seed[1]) ELSE state

\* markov_generate(trans, length, start, seed) run on generator state `state`:
\* [ok, seq, rng] with rng the generator state the call leaves behind.
\* ok = FALSE stands for the ValueError of normalize_row or the IndexError of
\* states[0] on an empty graph.
markov_generate(trans, length, start, seed, state) ==
  LET seeded == SeedState(seed, state)
      rowsOk == \A k \in 1..Len(trans) : normalize_row(trans[k][2]).ok
  IN  IF ~rowsOk THEN [ok |-> FALSE, seq |-> <<>>, rng |-> seeded]
      ELSE IF start = None /\ trans = <<>>
        THEN [ok |-> FALSE, seq |-> <<>>, rng |-> seeded]
      ELSE LET first == IF start = None THEN trans[1][1] ELSE start[1]
           IN  IF length - 1 > 0 /\ trans = <<>>
                 THEN [ok |-> FALSE, seq |-> <<>>, rng |-> seeded]
                 ELSE Walk(trans, first, <<first>>, length - 1, seeded)

-----------------------------------------------------------------------------
(* Dictionaries keep insertion order: a sequence of <<key, value>> *)

DictHas(d, key) == \E k \in 1..Len(d) : d[k][1] = key

\* d[key] = val: a present key keeps its place, a new key goes last
DictSet(d, key, val) ==
  IF DictHas(d, key)
    THEN [k \in 1..Len(d) |-> IF d[k][1] = key THEN <<key, val>> ELSE d[k]]
    ELSE Append(d, <<key, val>>)

\* d.get(key, default)
DictGet(d, key, default) ==
  IF DictHas(d, key) THEN d[CHOOSE k \in 1..Len(d) : d[k][1] = key][2] ELSE default

-----------------------------------------------------------------------------
(* parse_markov_inline *)

\* the first place of character c in s, 0 when absent
Find(s, c) ==
  IF \E k \in 1..Len(s) : s[k] = c
    THEN CHOOSE k \in 1..Len(s) : s[k] = c /\ \A j \in 1..(k - 1) : s[j] # c
    ELSE 0

RECURSIVE Split(_, _)
\* s.split(c)
Split(s, c) ==
  IF Find(s, c) = 0 THEN <<s>>
  ELSE <<SubSeq(s, 1, Find(s, c) - 1)>> \o Split(SubSeq(s, Find(s, c) + 1, Len(s)), c)

\* s.split(c, 1) for an s that holds c
SplitOnce(s, c) == <<SubSeq(s, 1, Find(s, c) - 1), SubSeq(s, Find(s, c) + 1, Len(s))>>

RECURSIVE StripAll(_, _)
\* [p.strip() for p in parts if p.strip()]
StripAll(parts, k) ==
  IF k > Len(parts) THEN <<>>
  ELSE (IF strip(parts[k]) # <<>> THEN <<strip(parts[k])>> ELSE <<>>)
         \o StripAll(parts, k + 1)

\* float(prob) for a probability written in hundredths; -1 for the ValueError
FloatOf(prob) == IntOf(strip(prob))

RECURSIVE InlinePairs(_, _, _)
\* the loop over the pairs of one clause: [ok, row]
InlinePairs(pairs, k, nxt) ==
  IF k > Len(pairs) THEN [ok |-> TRUE, row |-> nxt]
  ELSE IF Find(pairs[k], "=") = 0 THEN [ok |-> FALSE, row |-> <<>>]
  ELSE LET halves == SplitOnce(pairs[k], "=")
           nxt_state == strip(halves[1])
       IN  IF ~ROMAN_RE(nxt_state) THEN [ok |-> FALSE, row |-> <<>>]
           ELSE IF FloatOf(halves[2]) < 0 THEN [ok |-> FALSE, row |-> <<>>]
           ELSE InlinePairs(pairs, k + 1, DictSet(nxt, nxt_state, FloatOf(halves[2])))

RECURSIVE InlineClauses(_, _, _)
\* the loop over the clauses: [ok, graph]
InlineClauses(clauses, k, graph) ==
  IF k > Len(clauses) THEN [ok |-> TRUE, graph |-> graph]
  ELSE IF Find(clauses[k], ":") = 0 THEN [ok |-> FALSE, graph |-> <<>>]
  ELSE LET halves == SplitOnce(clauses[k], ":")
           state == strip(halves[1])
           row == InlinePairs(StripAll(Split(halves[2], ","), 1), 1, <<>>)
       IN  IF ~ROMAN_RE(state) THEN [ok |-> FALSE, graph |-> <<>>]
           ELSE IF ~row.ok THEN [ok |-> FALSE, graph |-> <<>>]
           ELSE InlineClauses(clauses, k + 1, DictSet(graph, state, row.row))

\* parse_markov_inline(spec): [ok, graph]; ok = FALSE stands for the ValueError
parse_markov_inline(spec) == InlineClauses(StripAll(Split(spec, ";"), 1), 1, <<>>)

-----------------------------------------------------------------------------
(* Modes and degree presets *)

dviio == <<"v","i","i",Dim>>
dvio == <<"v","i",Dim>>
dvo == <<"v",Dim>>
divo == <<"i","v",Dim>>
diiio == <<"i","i","i",Dim>>
diio == <<"i","i",Dim>>
dio == <<"i",Dim>>

MODE_TABLE(name) ==
  CASE name = "ionian" -> <<dI, dii, diii, dIV, dV, dvi, dviio>>
    [] name = "dorian" -> <<di, dii, dIII, dIV, dv, dvio, dVII>>
    [] name = "phrygian" -> <<di, dII, dIII, div, dvo, dVI, dvii>>
    [] name = "lydian" -> <<dI, dII, diii, divo, dV, dvi, dvii>>
    [] name = "mixolydian" -> <<dI, dii, diiio, dIV, dv, dvi, dVII>>
    [] name = "aeolian" -> <<di, diio, dIII, div, dv, dVI, dVII>>
    [] name = "locrian" -> <<dio, dII, dIII, div, dV, dVI, dvii>>

ModeNames ==
  {"ionian", "dorian", "phrygian", "lydian", "mixolydian", "aeolian", "locrian"}

PresetNames ==
  {"pop", "jazz_iiv1", "circle5", "andalusian", "modal_mix", "sec_dom",
   "hyperpop_a", "hyperpop_b"}

PRESET_DEGREES(name) ==
  CASE name = "pop" -> <<dI, dV, dvi, dIV>>
    [] name = "jazz_iiv1" -> <<dii, dV, dI>>
    [] name = "circle5" -> <<dI, dIV, dvii, diii, dvi, dii, dV, dI>>
    [] name = "andalusian" -> <<di, dbVII, dbVI, dV>>
    [] name = "modal_mix" -> <<dI, dbVII, dIV>>
    [] name = "sec_dom" -> <<diii, dVI, dii, dV, dI>>
    [] name = "hyperpop_a" -> <<di, dVII, dVI, dIV, dV, di, dVII, dVI>>
    [] name = "hyperpop_b" -> <<dI, dV, dvi, dIV, dbVII, dI, dV, dvi>>

RECURSIVE PresetLoop(_, _, _)
\* while len(out) < length: out.extend(base)
PresetLoop(base, out, length) ==
  IF Len(out) < length THEN PresetLoop(base, out \o base, length) ELSE out

\* make_preset(name, length): [ok, out]; ok = FALSE stands for the ValueError
make_preset(name, length) ==
  IF name \notin PresetNames THEN [ok |-> FALSE, out |-> <<>>]
  ELSE [ok |-> TRUE,
        out |-> SubSeq(PresetLoop(PRESET_DEGREES(name), <<>>, length), 1,
                       IF length < 0 THEN 0 ELSE length)]

-----------------------------------------------------------------------------
(* Mode/borrow classifier *)

\* an _is_in_mode that also drops the diminished mark on both sides
_is_in_mode_nodim(deg, mode_name) ==
  LET table == MODE_TABLE(mode_name)
      core(x) == rstrip(_strip_accidentals(x), {Dim})
  IN  core(deg) \in {core(table[k]) : k \in 1..7}

\* _is_in_mode(deg, mode_name)
_is_in_mode(deg, mode_name) ==
  LET core == _strip_accidentals(deg)
      table == MODE_TABLE(mode_name)
      mode_set == {_strip_accidentals(table[k]) : k \in 1..Len(table)}
  IN  core \in mode_set

RECURSIVE SplitLoop(_, _, _, _, _)
\* the for loop of _split_borrowing
SplitLoop(seq, k, mode, in_mode, borrowed) ==
  IF k > Len(seq) THEN <<in_mode, borrowed>>
  ELSE LET d == seq[k]
           core_ok == _is_in_mode(d, mode)
           acc == HasAccidental(d)
       IN  IF core_ok /\ ~acc
             THEN SplitLoop(seq, k + 1, mode, Append(in_mode, d), borrowed)
             ELSE SplitLoop(seq, k + 1, mode, in_mode, Append(borrowed, d))

NotAcc(d) == ~HasAccidental(d)

\* _split_borrowing(seq, mode): <<in_mode, borrowed>>; mode is None or <<name>>
_split_borrowing(seq, mode) ==
  IF seq = <<>> THEN <<<<>>, <<>>>>
  ELSE IF mode = None
    THEN <<SelectSeq(seq, NotAcc), SelectSeq(seq, HasAccidental)>>
    ELSE SplitLoop(seq, 1, mode[1], <<>>, <<>>)

-----------------------------------------------------------------------------
(* J74 id arithmetic and emission *)

SectionNames == <<"diatonic", "custom1", "custom2">>

\* {'diatonic':0, 'custom1':1, 'custom2':2}[section]
SectionTens(section) ==
  CASE section = "diatonic" -> 0 [] section = "custom1" -> 1 [] section = "custom2" -> 2

\* an id formula that gives the section a digit of its own
slot_id_own_digit(quality_idx, section, col0, row1) ==
  quality_idx * 1000 + SectionTens(section) * 100 + (col0 + 1) * 10 + row1

\* slot_id(quality_idx, section, col0, row1)
slot_id(quality_idx, section, col0, row1) ==
  LET tens == SectionTens(section)
      ones == col0 + 1
      hundreds == quality_idx
  IN  hundreds * 100 + tens * 10 + ones * 10 + row1

FallbackColumns == <<dI, dV, dvi, dIV, dii>>

\* a _cycle_to_five that rounds the number of copies down
_cycle_to_five_floor(seq) ==
  IF seq = <<>> THEN FallbackColumns
  ELSE IF Len(seq) < 5
    THEN LET k == 5 \div Len(seq)
         IN  SubSeq(Times(seq, k), 1, IF Len(seq) * k < 5 THEN Len(seq) * k ELSE 5)
    ELSE SubSeq(seq, 1, 5)

\* _cycle_to_five(seq)
_cycle_to_five(seq) ==
  IF seq = <<>> THEN FallbackColumns
  ELSE IF Len(seq) < 5
    THEN LET k == (5 + Len(seq) - 1) \div Len(seq)
         IN  SubSeq(Times(seq, k), 1, 5)
    ELSE SubSeq(seq, 1, 5)

\* lane_offsets of main: {"1":0, "2":1, "3":2, "4":3, "5":8}
DefaultLaneOffsets == <<0, 1, 2, 3, 8>>

Header == [kind |-> "header"]
Separator == [kind |-> "separator"]
Label(section, q) == [kind |-> "label", section |-> section, quality |-> q]
SlotLine(sid, midi) == [kind |-> "slot", id |-> sid, note |-> midi]

\* an emitter whose notes count the rows from 0 instead of from 1
SectionBlocks_row0(section, cols, start_note, row_step, lane_offsets) ==
  LET ncol == IF Len(cols) < 5 THEN Len(cols) ELSE 5
      size == ncol + 1
  IN  [n \in 1..(5 * size) |->
         LET q == ((n - 1) \div size) + 1
             col0 == ((n - 1) % size) - 1
         IN  IF col0 < 0 THEN Label(section, q)
             ELSE LET row == _roman_to_row(cols[col0 + 1])
                      lane_base == start_note + lane_offsets[q]
                  IN  SlotLine(slot_id(q, section, col0, row),
                               lane_base + row * row_step)]

\* The lines emit_section appends when every degree resolves: for q = 1..5 the
\* label of the quality row, then one id/note line per column of cols[:5].
SectionBlocks(section, cols, start_note, row_step, lane_offsets) ==
  LET ncol == IF Len(cols) < 5 THEN Len(cols) ELSE 5
      size == ncol + 1
  IN  [n \in 1..(5 * size) |->
         LET q == ((n - 1) \div size) + 1
             col0 == ((n - 1) % size) - 1
         IN  IF col0 < 0 THEN Label(section, q)
             ELSE LET row == _roman_to_row(cols[col0 + 1])
                      lane_base == start_note + lane_offsets[q]
                  IN  SlotLine(slot_id(q, section, col0, row),
                               lane_base + (row - 1) * row_step)]

\* emit_section(section, cols, start_note, row_step, lane_offsets): [ok, lines].
\* ok = FALSE stands for the ValueError of _roman_to_row, raised in the first
\* quality row at the first column whose degree has no row; lines then holds
\* what the loop had appended.
emit_section(section, cols, start_note, row_step, lane_offsets) ==
  LET ncol == IF Len(cols) < 5 THEN Len(cols) ELSE 5
      bad == {c \in 1..ncol : _roman_to_row(cols[c]) = 0}
      blocks == SectionBlocks(section, cols, start_note, row_step, lane_offsets)
  IN  IF bad = {}
        THEN [ok |-> TRUE, lines |-> Append(blocks, Separator)]
        ELSE [ok |-> FALSE,
              lines |-> SubSeq(blocks, 1, CHOOSE c \in bad : \A d \in bad : c <= d)]

RECURSIVE EmitSections(_, _, _, _, _, _, _)
\* the loop of emit_mapping_sectioned over secs: [ok, lines]
EmitSections(sec_cols, start_note, row_step, lane_offsets, secs, k, out) ==
  IF k > Len(secs) THEN [ok |-> TRUE, lines |-> out]
  ELSE LET cols == _cycle_to_five(DictGet(sec_cols, secs[k], <<>>))
           sec == emit_section(secs[k], cols, start_note, row_step, lane_offsets)
       IN  IF ~sec.ok THEN [ok |-> FALSE, lines |-> out \o sec.lines]
           ELSE EmitSections(sec_cols, start_note, row_step, lane_offsets,
                             secs, k + 1, out \o sec.lines)

\* an emitter that returns the lines it has when a degree cannot be resolved
emit_mapping_sectioned_partial(sec_cols, start_note, row_step, lane_offsets, secs) ==
  [ok |-> TRUE,
   lines |-> EmitSections(sec_cols, start_note, row_step, lane_offsets,
                          secs, 1, <<Header>>).lines]

\* emit_mapping_sectioned(...): [ok, lines], the text as its list of lines
emit_mapping_sectioned(sec_cols, start_note, row_step, lane_offsets, secs) ==
  EmitSections(sec_cols, start_note, row_step, lane_offsets, secs, 1,
               <<Header>>)

-----------------------------------------------------------------------------
(* Markov preset matrices (MARKOV_PRESETS), weights in hundredths *)

MARKOV_PRESETS(name) ==
  CASE name = "pop_basic" ->
         << <<dI,  << <<dV, 60>>, <<dvi, 20>>, <<dIV, 20>> >> >>,
            <<dV,  << <<dvi, 60>>, <<dIV, 25>>, <<dI, 15>> >> >>,
            <<dvi, << <<dIV, 70>>, <<dii, 20>>, <<dV, 10>> >> >>,
            <<dIV, << <<dI, 60>>, <<dV, 25>>, <<dii, 15>> >> >>,
            <<dii, << <<dV, 80>>, <<dIV, 20>> >> >> >>
    [] name = "jazz_turn" ->
         << <<dI,   << <<dvi, 35>>, <<dii, 35>>, <<dIV, 30>> >> >>,
            <<dii,  << <<dV, 85>>, <<dbII, 15>> >> >>,
            <<dV,   << <<dI, 70>>, <<dvi, 20>>, <<dII, 10>> >> >>,
            <<dvi,  << <<dii, 60>>, <<dIV, 25>>, <<dV, 15>> >> >>,
            <<dIV,  << <<dii, 50>>, <<dV, 30>>, <<dI, 20>> >> >>,
            <<dbII, << <<dI, 100>> >> >>,
            <<dII,  << <<dV, 100>> >> >> >>
    [] name = "andalusian_minor" ->
         << <<di,    << <<dbVII, 70>>, <<div, 30>> >> >>,
            <<dbVII, << <<dbVI, 80>>, <<dV, 20>> >> >>,
            <<dbVI,  << <<dV, 80>>, <<di, 20>> >> >>,
            <<dV,    << <<di, 85>>, <<dbVII, 15>> >> >>,
            <<div,   << <<dV, 70>>, <<di, 30>> >> >> >>
    [] name = "hyperpop_a" ->
         << <<di,   << <<dVII, 55>>, <<dVI, 25>>, <<dIV, 10>>, <<dV, 10>> >> >>,
            <<dVII, << <<dVI, 70>>, <<dV, 15>>, <<dII, 15>> >> >>,
            <<dVI,  << <<dIV, 45>>, <<dV, 35>>, <<di, 20>> >> >>,
            <<dIV,  << <<dV, 60>>, <<di, 25>>, <<dII, 15>> >> >>,
            <<dV,   << <<di, 60>>, <<dVII, 25>>, <<dIV, 15>> >> >>,
            <<dII,  << <<dV, 100>> >> >> >>
    [] name = "hyperpop_b" ->
         << <<dI,    << <<dV, 60>>, <<dvi, 20>>, <<dII, 20>> >> >>,
            <<dV,    << <<dvi, 55>>, <<dIV, 25>>, <<dI, 20>> >> >>,
            <<dvi,   << <<dIV, 60>>, <<dbVII, 25>>, <<dV, 15>> >> >>,
            <<dIV,   << <<dI, 55>>, <<dV, 25>>, <<dII, 20>> >> >>,
            <<dbVII, << <<dI, 70>>, <<dV, 30>> >> >>,
            <<dII,   << <<dV, 100>> >> >> >>

MarkovPresetNames ==
  {"pop_basic", "jazz_turn", "andalusian_minor", "hyperpop_a", "hyperpop_b"}

-----------------------------------------------------------------------------
(* main(): the routing of lines 597-618 *)

\* a routing that hands the borrowed list to the other grid and the in-mode
\* list to the target
RouteSections_swapped(in_mode, borrowed, target, secs) ==
  LET other == IF target = "custom2" THEN "custom1" ELSE "custom2"
      has(x) == \E k \in 1..Len(secs) : secs[k] = x
      d1 == <<<<"diatonic", IF has("diatonic") THEN _cycle_to_five(in_mode) ELSE <<>>>>>>
      d2 == IF has(other)
              THEN DictSet(d1, other,
                     _cycle_to_five(IF borrowed # <<>> THEN borrowed ELSE in_mode))
              ELSE d1
  IN  IF has(target)
        THEN DictSet(d2, target,
               _cycle_to_five(IF in_mode # <<>> THEN in_mode ELSE borrowed))
        ELSE d2

\* lines 607-614: the dict section_to_cols filled by the routing branch
RouteSections(in_mode, borrowed, target, secs) ==
  LET other == IF target = "custom2" THEN "custom1" ELSE "custom2"
      has(x) == \E k \in 1..Len(secs) : secs[k] = x
      d1 == <<<<"diatonic", IF has("diatonic") THEN _cycle_to_five(in_mode) ELSE <<>>>>>>
      d2 == IF has(target)
              THEN DictSet(d1, target,
                     _cycle_to_five(IF borrowed # <<>> THEN borrowed ELSE in_mode))
              ELSE d1
  IN  IF has(other)
        THEN DictSet(d2, other,
               _cycle_to_five(IF in_mode # <<>> THEN in_mode ELSE borrowed))
        ELSE d2

RECURSIVE MirrorAll(_, _, _)
\* lines 617-618: for s in sections: section_to_cols[s] = list(deg_seq)
MirrorAll(secs, k, seq) ==
  IF k > Len(secs) THEN <<>>
  ELSE <<<<secs[k], seq>>>> \o MirrorAll(secs, k + 1, seq)

\* line 597
SectionsOf(mirror) == IF mirror = "all" THEN SectionNames ELSE <<mirror>>

\* lines 584-594: [ok, seq, rng] from the one source the command line names.
\* ok = FALSE stands for the exception the source's builder raises.
BuildDegSeq(a, state) ==
  LET truthy(opt) == opt # None /\ opt[1] # <<>>
      bad == [ok |-> FALSE, seq |-> <<>>, rng |-> state]
  IN  IF truthy(a.prog)
        THEN LET r == parse_progression(a.prog[1])
             IN  [ok |-> r.ok, seq |-> r.out, rng |-> state]
      ELSE IF a.preset # None
        THEN LET r == make_preset(a.preset[1], a.repeat)
             IN  [ok |-> r.ok, seq |-> r.out, rng |-> state]
      ELSE IF a.markov_preset # None
        THEN IF a.markov_preset[1] \notin MarkovPresetNames THEN bad
             ELSE markov_generate(MARKOV_PRESETS(a.markov_preset[1]), a.length,
                                  None, a.seed, state)
      ELSE IF a.markov = None THEN bad
      ELSE LET g == parse_markov_inline(a.markov[1])
           IN  IF ~g.ok \/ g.graph = <<>> THEN bad
               ELSE markov_generate(g.graph, a.length, Some(g.graph[1][1]),
                                    a.seed, state)

-----------------------------------------------------------------------------
(* Inputs of main() *)

MainDegrees == {dI, dvii, dbVII, <<"I","I","I","I">>}

RECURSIVE JoinDash(_, _)
\* the degrees ds[k..] written as a progression "d-d-d"
JoinDash(ds, k) ==
  IF k > Len(ds) THEN <<>>
  ELSE IF k = Len(ds) THEN ds[k]
  ELSE ds[k] \o <<"-">> \o JoinDash(ds, k + 1)

ProgTexts ==
  UNION {{JoinDash(ds, 1) : ds \in [1..n -> MainDegrees]} : n \in 1..MaxSeq}
    \cup {<<"(">>, <<"I", ")">>, <<>>}

InlineTexts ==
  {<<"I",":","V","=","6","0",",","b","V","I","I","=","4","0",";","V",":","I","=","5","0",",","V","=","5","0">>,
   <<"I",":","V","=","0">>,
   <<"I">>,
   <<";">>}

\* --repeat and --length default to 10, --seed to None
NoSource ==
  [prog |-> None, preset |-> None, markov_preset |-> None, markov |-> None,
   repeat |-> 10, length |-> 10, seed |-> None]

Sources ==
  {[NoSource EXCEPT !.prog = Some(t)] : t \in ProgTexts}
    \cup {[NoSource EXCEPT !.preset = Some(n), !.repeat = r] :
            n \in {"pop", "hyperpop_b", "nope"}, r \in {0, 4, 5, 8}}
    \cup {[NoSource EXCEPT !.markov_preset = Some(n), !.length = MaxLength, !.seed = sd] :
            n \in {"pop_basic", "nope"}, sd \in {None, Some(MaxSeed)}}
    \cup {[NoSource EXCEPT !.markov = Some(t), !.length = MaxLength, !.seed = sd] :
            t \in InlineTexts, sd \in {None, Some(MaxSeed)}}

DefaultStartNote == 0
DefaultRowStep == 16

MainArgs ==
  {[prog |-> src.prog, preset |-> src.preset, markov_preset |-> src.markov_preset,
    markov |-> src.markov, repeat |-> src.repeat, length |-> src.length,
    seed |-> src.seed,
    allow_borrowed |-> ab, borrowed_to_custom |-> bc, mode |-> md, mirror |-> mr,
    start_note |-> DefaultStartNote, row_step |-> DefaultRowStep] :
     src \in Sources,
     ab \in BOOLEAN,
     bc \in {None, Some("custom1"), Some("custom2")},
     md \in {None, Some("ionian"), Some("mixolydian")},
     mr \in {"all", "diatonic", "custom1", "custom2"}}

-----------------------------------------------------------------------------
(* Initial conditions of the parts *)

NoResult == [ok |-> FALSE, out |-> <<>>, i |-> 0, err |-> "not run"]

ParseIdle == spec_in = <<>> /\ ppc = "idle" /\ toks = <<>> /\ presult = NoResult
MarkovIdle == mkProbe = None /\ mkFirst = None /\ mkCall = None
ClassifyIdle == clsSeq = <<>> /\ clsMode = None /\ clsOut = None
SlotIdle == slotA = None /\ slotB = None /\ slotIds = None
MainIdle ==
  /\ args = None /\ pc = "idle" /\ deg_seq = <<>> /\ split = None
  /\ sections = <<>> /\ section_to_cols = <<>> /\ text = None /\ outfile = None
  /\ failed = None /\ steps = <<>>

-----------------------------------------------------------------------------
(* main(): one run, from the parsed command line to the written file *)

MainInit ==
  /\ args \in MainArgs
  /\ rng \in (IF args.markov_preset = None /\ args.markov = None
                THEN {0} ELSE 0..(RngMod - 1))
  /\ pc = "start"
  /\ deg_seq = <<>>
  /\ split = None
  /\ sections = <<>>
  /\ section_to_cols = <<>>
  /\ text = None
  /\ outfile = None
  /\ failed = None
  /\ steps = <<>>

Abort(step) ==
  /\ pc' = "aborted"
  /\ failed' = Some(step)

\* lines 583-594: build the degree sequence
BuildSequence ==
  /\ pc = "start"
  /\ LET r == BuildDegSeq(args, rng)
     IN  /\ rng' = r.rng
         /\ IF r.ok
              THEN /\ deg_seq' = r.seq
                   /\ pc' = "built"
                   /\ steps' = Append(steps, "sequence")
                   /\ UNCHANGED failed
              ELSE /\ Abort("sequence")
                   /\ UNCHANGED <<deg_seq, steps>>
  /\ UNCHANGED <<args, split, sections, section_to_cols, text, outfile>>
  /\ UNCHANGED <<parseVars, markovVars, classifyVars, slotVars>>

\* lines 596-618: choose the sections and fill section_to_cols
Route ==
  /\ pc = "built"
  /\ sections' = SectionsOf(args.mirror)
  /\ IF args.borrowed_to_custom # None
       THEN LET sp == _split_borrowing(deg_seq, args.mode)
            IN  /\ split' = Some(sp)
                /\ IF args.mode # None /\ ~args.allow_borrowed /\ sp[2] # <<>>
                     THEN /\ Abort("routing")
                          /\ UNCHANGED <<section_to_cols, steps>>
                     ELSE /\ section_to_cols' =
                               RouteSections(sp[1], sp[2], args.borrowed_to_custom[1],
                                             sections')
                          /\ pc' = "routed"
                          /\ steps' = Append(steps, "routing")
                          /\ UNCHANGED failed
       ELSE /\ section_to_cols' = MirrorAll(sections', 1, deg_seq)
            /\ pc' = "routed"
            /\ steps' = Append(steps, "routing")
            /\ UNCHANGED <<split, failed>>
  /\ UNCHANGED <<args, deg_seq, text, outfile, rng>>
  /\ UNCHANGED <<parseVars, markovVars, classifyVars, slotVars>>

\* lines 620-631: emit the mapping text
Emit ==
  /\ pc = "routed"
  /\ LET r == emit_mapping_sectioned(section_to_cols, args.start_note, args.row_step,
                                     DefaultLaneOffsets, sections)
     IN  IF r.ok
           THEN /\ text' = Some(r.lines)
                /\ pc' = "emitted"
                /\ steps' = Append(steps, "emission")
                /\ UNCHANGED failed
           ELSE /\ Abort("emission")
                /\ UNCHANGED <<text, steps>>
  /\ UNCHANGED <<args, deg_seq, split, sections, section_to_cols, outfile, rng>>
  /\ UNCHANGED <<parseVars, markovVars, classifyVars, slotVars>>

\* lines 633-635: write the mapping file
WriteFile ==
  /\ pc = "emitted"
  /\ outfile' = text
  /\ pc' = "written"
  /\ steps' = Append(steps, "write")
  /\ UNCHANGED <<args, deg_seq, split, sections, section_to_cols, text, failed, rng>>
  /\ UNCHANGED <<parseVars, markovVars, classifyVars, slotVars>>

MainNext == BuildSequence \/ Route \/ Emit \/ WriteFile

\* the state before main() runs: nothing else is in progress
InitMain == MainInit /\ ParseIdle /\ MarkovIdle /\ ClassifyIdle /\ SlotIdle

SpecMain == InitMain /\ [][MainNext]_vars

-----------------------------------------------------------------------------
(* The markov_generate harness: calls made one after another in one process *)

\* a graph whose state bVII has no outgoing row, as --markov "I:V=60,bVII=40;V:I=50,V=50"
GraphDeadEnd ==
  << <<dI, << <<dV, 60>>, <<dbVII, 40>> >> >>,
     <<dV, << <<dI, 50>>, <<dV, 50>> >> >> >>

\* a graph with a row of sum 0, as --markov "I:V=0"
GraphZeroRow == << <<dI, << <<dV, 0>> >> >> >>

Graphs == {GraphDeadEnd, MARKOV_PRESETS("pop_basic"), GraphZeroRow}
Lengths == 0..MaxLength
Starts == {None, Some(dV), Some(dbVI)}
Seeds == {None} \cup {Some(k) : k \in 0..MaxSeed}

MarkovArgs == [trans : Graphs, length : Lengths, start : Starts, seed : Seeds]

\* the calls made before and between the compared ones
OtherArgs ==
  [trans : {GraphDeadEnd}, length : {2, MaxLength}, start : {None},
   seed : {None, Some(0), Some(MaxSeed)}]

MarkovInit ==
  /\ rng \in 0..(RngMod - 1)
  /\ mkProbe \in MarkovArgs
  /\ mkFirst = None
  /\ mkCall = None

\* one call of markov_generate, from its first line to its return
MarkovGenerate(a) ==
  LET r == markov_generate(a.trans, a.length, a.start, a.seed, rng)
      res == [ok |-> r.ok, seq |-> r.seq]
  IN  /\ rng' = r.rng
      /\ mkCall' = Some([args |-> a, result |-> res, before |-> rng])
      /\ mkFirst' = IF mkFirst = None /\ a = mkProbe
                      THEN Some([result |-> res, before |-> rng]) ELSE mkFirst
      /\ UNCHANGED mkProbe
      /\ UNCHANGED <<parseVars, classifyVars, slotVars, mainVars>>

CallProbe == MarkovGenerate(mkProbe)
CallOther == \E a \in OtherArgs : MarkovGenerate(a)

MarkovNext == CallProbe \/ CallOther

InitMarkov == MarkovInit /\ ParseIdle /\ ClassifyIdle /\ SlotIdle /\ MainIdle

SpecMarkov == InitMarkov /\ [][MarkovNext]_vars

-----------------------------------------------------------------------------
(* The parse_progression harness: a text is drawn, then parsed *)

\* the pieces the texts are written with
Lexemes == {<<"I">>, <<"b", "V">>, <<"(">>, <<")">>, <<"-">>, <<",">>,
            <<"*", "2">>}

RECURSIVE Concat(_, _)
\* the pieces f[k..] joined into one text
Concat(f, k) == IF k > Len(f) THEN <<>> ELSE f[k] \o Concat(f, k + 1)

ParseInit ==
  /\ \E n \in 0..MaxLex : \E f \in [1..n -> Lexemes] : spec_in = Concat(f, 1)
  /\ ppc = "ready"
  /\ toks = <<>>
  /\ presult = NoResult

\* parse_progression(spec_in)
ParseProgression ==
  /\ ppc = "ready"
  /\ toks' = _tokenize(spec_in)
  /\ presult' = parse_expr(toks', 0)
  /\ ppc' = "done"
  /\ UNCHANGED spec_in
  /\ UNCHANGED <<rng, markovVars, classifyVars, slotVars, mainVars>>

ParseNext == ParseProgression

InitParse ==
  ParseInit /\ rng = 0 /\ MarkovIdle /\ ClassifyIdle /\ SlotIdle /\ MainIdle

SpecParse == InitParse /\ [][ParseNext]_vars

-----------------------------------------------------------------------------
(* The _split_borrowing harness: a degree sequence and a mode are drawn *)

ClassifyDegrees ==
  {dI, dii, diio, dvii, dviio, dVII, dbVII, <<"#","I","V">>}

ClassifyInit ==
  /\ \E n \in 0..MaxSeq : clsSeq \in [1..n -> ClassifyDegrees]
  /\ clsMode \in {None} \cup {Some(m) : m \in ModeNames}
  /\ clsOut = None

\* in_mode, borrowed = _split_borrowing(clsSeq, clsMode)
SplitBorrowing ==
  /\ clsOut = None
  /\ clsOut' = Some(_split_borrowing(clsSeq, clsMode))
  /\ UNCHANGED <<clsSeq, clsMode>>
  /\ UNCHANGED <<rng, parseVars, markovVars, slotVars, mainVars>>

ClassifyNext == SplitBorrowing

InitClassify ==
  ClassifyInit /\ rng = 0 /\ ParseIdle /\ MarkovIdle /\ SlotIdle /\ MainIdle

SpecClassify == InitClassify /\ [][ClassifyNext]_vars

-----------------------------------------------------------------------------
(* The slot_id harness: the ids of two slots *)

Slots ==
  [quality : 1..5, section : {"diatonic", "custom1", "custom2"}, col0 : 0..4,
   row1 : 1..7]

SlotInit ==
  /\ slotA \in Slots
  /\ slotB = None
  /\ slotIds = None

\* slot_id of slotA and of a second slot
SlotIdPair ==
  /\ slotB = None
  /\ \E b \in Slots :
       /\ slotB' = Some(b)
       /\ slotIds' = <<slot_id(slotA.quality, slotA.section, slotA.col0, slotA.row1),
                       slot_id(b.quality, b.section, b.col0, b.row1)>>
  /\ UNCHANGED slotA
  /\ UNCHANGED <<rng, parseVars, markovVars, classifyVars, mainVars>>

SlotNext == SlotIdPair

InitSlot ==
  SlotInit /\ rng = 0 /\ ParseIdle /\ MarkovIdle /\ ClassifyIdle /\ MainIdle

SpecSlot == InitSlot /\ [][SlotNext]_vars

-----------------------------------------------------------------------------
(* What the grammar of the mini-language says, stated without the parser *)

RECURSIVE Depths(_, _, _)
\* the nesting depth after each character of txt, from character k on
Depths(txt, k, d) ==
  IF k > Len(txt) THEN <<d>>
  ELSE LET d2 == IF txt[k] = "(" THEN d + 1
                 ELSE IF txt[k] = ")" THEN d - 1 ELSE d
       IN  <<d>> \o Depths(txt, k + 1, d2)

\* every ")" closes an open "(", and every "(" is closed
Balanced(txt) ==
  LET ds == Depths(txt, 1, 0)
  IN  /\ \A k \in 1..Len(ds) : ds[k] >= 0
      /\ ds[Len(ds)] = 0

SevenNumerals ==
  {<<"I">>, <<"I","I">>, <<"I","I","I">>, <<"I","V">>, <<"V">>, <<"V","I">>,
   <<"V","I","I">>}

\* accidental* numeral diminished?, the numeral one of I..VII in any letter case
IsDegreeForm(t) ==
  LET rest == DropLeading(t, Accidentals)
      body == IF rest # <<>> /\ rest[Len(rest)] = Dim
                THEN SubSeq(rest, 1, Len(rest) - 1) ELSE rest
  IN  upper(body) \in SevenNumerals

\* The expansion of a token list by a stack of open groups, read left to right.
\* A frame is [acc, last]: what the group holds before its last item, and the
\* expansion of its last item.
Flush(fr) == [acc |-> fr.acc \o fr.last, last |-> <<>>]
EmptyFrame == [acc |-> <<>>, last |-> <<>>]

RECURSIVE Expand(_, _, _)
Expand(ts, k, st) ==
  LET n == Len(st)
      top == st[n]
      below == SubSeq(st, 1, n - 1)
  IN  IF k > Len(ts) THEN top.acc \o top.last
      ELSE IF ts[k] = <<"(">>
        THEN Expand(ts, k + 1, below \o <<Flush(top), EmptyFrame>>)
      ELSE IF ts[k] = <<")">>
        THEN IF n < 2 THEN top.acc \o top.last
             ELSE Expand(ts, k + 1,
                    SubSeq(st, 1, n - 2)
                      \o <<[acc |-> st[n - 1].acc, last |-> top.acc \o top.last]>>)
      ELSE IF ts[k] \in {<<",">>, <<"-">>}
        THEN Expand(ts, k + 1, below \o <<Flush(top)>>)
      ELSE IF ts[k] = <<"*">>
        THEN IF k = Len(ts) THEN top.acc \o top.last
             ELSE Expand(ts, k + 2,
                    below \o <<[acc |-> top.acc,
                                last |-> Times(top.last, IntOf(ts[k + 1]))]>>)
      ELSE Expand(ts, k + 1,
             below \o <<[acc |-> top.acc \o top.last, last |-> <<ts[k]>>]>>)

RECURSIVE RawTokens(_, _, _)
\* the txt cut at its structural characters, '-' and ',' left as written
RawTokens(txt, k, buf) ==
  IF k > Len(txt) THEN (IF buf = <<>> THEN <<>> ELSE <<buf>>)
  ELSE IF txt[k] \in Structural
    THEN (IF buf = <<>> THEN <<>> ELSE <<buf>>) \o <<<<txt[k]>>>>
           \o RawTokens(txt, k + 1, <<>>)
    ELSE RawTokens(txt, k + 1, Append(buf, txt[k]))

-----------------------------------------------------------------------------
(* Claims about parse_progression *)

\* C4: parse_progression fails on every text whose parentheses are unbalanced
\* (an unclosed "(" and equally a ")" without a "("), and never returns a
\* sequence while tokens of the text are left unconsumed.
C4_UnbalancedFails ==
  ppc = "done" =>
    /\ (~Balanced(spec_in) => ~presult.ok)
    /\ (presult.ok => presult.i = Len(toks))

\* C5: every token parse_progression returns has the degree form (accidentals,
\* one numeral I..VII in any case, optional diminished mark) and so resolves
\* to a row 1..7.
C5_ResultIsDegrees ==
  (ppc = "done" /\ presult.ok) =>
    \A k \in 1..Len(presult.out) :
      /\ IsDegreeForm(presult.out[k])
      /\ _roman_to_row(presult.out[k]) \in 1..7

-----------------------------------------------------------------------------
(* Claims about markov_generate *)

\* C2: two calls of markov_generate with the same graph, length, start and
\* explicit seed return the same sequence, whatever calls ran before or
\* between them.
C2_SeededReproducible ==
  (mkCall # None /\ mkFirst # None /\ mkProbe.seed # None
     /\ mkCall[1].args = mkProbe)
    => mkCall[1].result = mkFirst[1].result

\* a seeded walk of full length was repeated on a different generator state
C2_Witness ==
  /\ mkCall # None /\ mkFirst # None
  /\ mkProbe.seed # None /\ mkProbe.trans = GraphDeadEnd
  /\ mkProbe.length = MaxLength
  /\ mkCall[1].args = mkProbe
  /\ mkCall[1].before # mkFirst[1].before
  /\ mkCall[1].result.ok

\* C3: for a valid graph and any length >= 0, markov_generate returns exactly
\* `length` tokens, the start state (explicit, or the first key) the first.
C3_ExactLength ==
  (mkCall # None /\ mkCall[1].result.ok) =>
    LET a == mkCall[1].args
        seq == mkCall[1].result.seq
    IN  /\ Len(seq) = a.length
        /\ a.length >= 1 =>
              seq[1] = (IF a.start = None THEN a.trans[1][1] ELSE a.start[1])

-----------------------------------------------------------------------------
(* Claims about _split_borrowing *)

\* the core of a degree as the specification words it: accidentals and the
\* diminished mark both removed
StrippedCore(d) == DropTrailing(DropLeading(d, Accidentals), {Dim})

-----------------------------------------------------------------------------
(* Claims about slot_id *)

\* C10 as stated: two different (quality, section, column, row) tuples never
\* get the same id.
C10_UniqueIds ==
  (slotIds # None /\ slotA # slotB[1]) => slotIds[1] # slotIds[2]

\* C10 (amended): two tuples get the same id exactly when they agree on the
\* quality, on the row and on the sum of section ordinal and column; so ids
\* are unique within one section, and collide across sections.
C10_IdCollisions ==
  slotIds # None =>
    LET a == slotA
        b == slotB[1]
        Ordinal(sec) == CASE sec = "diatonic" -> 0 [] sec = "custom1" -> 1
                          [] sec = "custom2" -> 2
    IN  (slotIds[1] = slotIds[2]) <=>
          /\ a.quality = b.quality
          /\ a.row1 = b.row1
          /\ Ordinal(a.section) + a.col0 = Ordinal(b.section) + b.col0

\* column 1 of the diatonic grid and column 0 of custom1 were given one id
C10_Witness ==
  /\ slotIds # None
  /\ slotA.section = "diatonic" /\ slotA.col0 = 1
  /\ slotB[1].section = "custom1" /\ slotB[1].col0 = 0
  /\ slotIds[1] = slotIds[2]

-----------------------------------------------------------------------------
(* Claims about main() *)

\* the five columns shown for a list: the list repeated from its start, or the
\* fallback columns for an empty list
FiveColumns(list) ==
  IF list = <<>> THEN <<dI, dV, dvi, dIV, dii>>
  ELSE [k \in 1..5 |-> list[((k - 1) % Len(list)) + 1]]

\* the columns section s holds in section_to_cols (<<>> when it holds none)
ColumnsOf(s) ==
  LET hits == {k \in 1..Len(section_to_cols) : section_to_cols[k][1] = s}
  IN  IF hits = {} THEN <<>> ELSE section_to_cols[CHOOSE k \in hits : TRUE][2]

\* C1: the mapping file is written only after the sequence was built, the
\* routing succeeded and every requested section was emitted in full; a run
\* in which a step failed has aborted and has written no file, not even a
\* partial one.
C1_AllOrNothing ==
  /\ outfile # None =>
       /\ pc = "written" /\ failed = None
       /\ steps = <<"sequence", "routing", "emission", "write">>
       /\ outfile = text
       /\ Len(outfile[1]) = 1 + 31 * Len(sections)
       /\ outfile[1][1].kind = "header"
       /\ \A n \in 1..Len(sections) :
            /\ outfile[1][1 + 31 * n].kind = "separator"
            /\ \A q \in 1..5 :
                 /\ outfile[1][1 + 31 * (n - 1) + 6 * (q - 1) + 1]
                      = [kind |-> "label", section |-> sections[n], quality |-> q]
                 /\ \A c \in 1..5 :
                      outfile[1][1 + 31 * (n - 1) + 6 * (q - 1) + 1 + c].kind = "slot"
            /\ \A c \in 1..5 :
                 RowMapping(DropTrailing(upper(DropLeading(
                   FiveColumns(ColumnsOf(sections[n]))[c], Accidentals)), {Dim}))
                   \in 1..7
  /\ failed # None =>
       /\ pc = "aborted" /\ outfile = None /\ text = None
       /\ failed[1] \in {"sequence", "routing", "emission"}
       /\ "write" \notin {steps[k] : k \in 1..Len(steps)}
  /\ pc = "written" => outfile # None

\* the emission of a section failed after sequence and routing had succeeded,
\* and nothing was written
C1_Witness ==
  /\ pc = "aborted" /\ failed = Some("emission")
  /\ steps = <<"sequence", "routing">>
  /\ Len(sections) = 3
  /\ outfile = None

\* C8: with a mode selected, a borrowed degree in the sequence and borrowing
\* not permitted, the run fails at the routing step with a configuration
\* error and writes no file.  (A degree with a leading accidental is borrowed
\* in every mode.)
C8_BorrowedRejected ==
  ( /\ Len(steps) >= 1 /\ steps[1] = "sequence"
    /\ args.mode # None
    /\ ~args.allow_borrowed
    /\ \E k \in 1..Len(deg_seq) : deg_seq[k][1] \in Accidentals )
    => /\ pc \in {"built", "aborted"}
       /\ pc = "aborted" => failed = Some("routing")
       /\ outfile = None

RECURSIVE IsMerge(_, _, _)
\* s is a and b interleaved, each in its own order
IsMerge(s, a, b) ==
  IF s = <<>> THEN a = <<>> /\ b = <<>>
  ELSE \/ a # <<>> /\ Head(a) = Head(s) /\ IsMerge(Tail(s), Tail(a), b)
       \/ b # <<>> /\ Head(b) = Head(s) /\ IsMerge(Tail(s), a, Tail(b))

\* C9: when routing was requested and did not fail, the in-mode and borrowed
\* lists are order-preserving subsequences that partition the sequence, and
\* of the requested sections diatonic holds the in-mode list, the target the
\* borrowed list (the in-mode list when nothing is borrowed), the other custom
\* section the in-mode list (the borrowed list when nothing is in-mode), each
\* as its five columns.
C9_RoutingPartition ==
  (args.borrowed_to_custom # None /\ pc \in {"routed", "emitted", "written"}) =>
    /\ split # None
    /\ LET in_mode == split[1][1]
           borrowed == split[1][2]
           target == args.borrowed_to_custom[1]
           Want(s) == IF s = "diatonic" THEN in_mode
                      ELSE IF s = target
                        THEN (IF borrowed = <<>> THEN in_mode ELSE borrowed)
                        ELSE (IF in_mode = <<>> THEN borrowed ELSE in_mode)
       IN  /\ IsMerge(deg_seq, in_mode, borrowed)
           /\ \A i \in 1..Len(in_mode) : \A j \in 1..Len(borrowed) :
                in_mode[i] # borrowed[j]
           /\ \A n \in 1..Len(sections) :
                ColumnsOf(sections[n]) = FiveColumns(Want(sections[n]))

\* a sequence with in-mode and borrowed degrees was routed to all three grids
C9_Witness ==
  /\ args.borrowed_to_custom = Some("custom2") /\ pc = "routed"
  /\ args.mode = Some("ionian")
  /\ split # None
  /\ Len(split[1][1]) >= 1 /\ Len(split[1][2]) >= 2
  /\ split[1][1] # split[1][2]
  /\ Len(sections) = 3
  /\ ColumnsOf("custom2") # ColumnsOf("custom1")

-----------------------------------------------------------------------------
(* The end-to-end example: --preset hyperpop_b --repeat 8, no routing *)

\* the run of the example has written its file
ExampleWritten ==
  /\ pc = "written"
  /\ args.preset = Some("hyperpop_b") /\ args.repeat = 8
  /\ args.borrowed_to_custom = None /\ args.mirror = "all"

\* the id and note lines of quality 1 in the n-th section of the written text
FirstBlock(n) == SubSeq(outfile[1], 31 * (n - 1) + 3, 31 * (n - 1) + 7)

\* every section shows the columns I V vi IV bVII, and the notes of the first
\* diatonic block are startNote + laneOffset[1] + (row - 1) * rowStep for the
\* rows 1, 5, 6, 4, 7 of those degrees
ExampleColumnsAndNotes ==
  /\ \A n \in 1..3 :
       /\ FiveColumns(ColumnsOf(sections[n])) = <<dI, dV, dvi, dIV, dbVII>>
       /\ \A c \in 1..5 : FirstBlock(n)[c].note = FirstBlock(1)[c].note
  /\ [c \in 1..5 |-> FirstBlock(1)[c].note]
       = [c \in 1..5 |-> args.start_note + 0 + (<<1, 5, 6, 4, 7>>[c] - 1) * args.row_step]

\* C11 as stated: in the example all three sections get the columns
\* I V vi IV bVII and the diatonic block of quality 1 lists the ids
\* 111, 121, 131, 141, 151 with the notes of the columns' rows.
C11_ExampleIds ==
  ExampleWritten =>
    /\ ExampleColumnsAndNotes
    /\ [c \in 1..5 |-> FirstBlock(1)[c].id] = <<111, 121, 131, 141, 151>>

\* C11 (amended): in the example all three sections get the columns
\* I V vi IV bVII and the diatonic block of quality 1 lists the ids
\* 111, 125, 136, 144, 157 (the last digit is the row) with the notes of the
\* columns' rows.
C11_ExampleIdsWithRows ==
  ExampleWritten =>
    /\ ExampleColumnsAndNotes
    /\ [c \in 1..5 |-> FirstBlock(1)[c].id] = <<111, 125, 136, 144, 157>>

\* the example ran to its end and the text of three sections was written
C11_Witness ==
  /\ ExampleWritten
  /\ Len(deg_seq) = 8
  /\ Len(outfile[1]) = 94
  /\ FirstBlock(1)[2].id = 125

-----------------------------------------------------------------------------
(* Claims about the generator and the walk of markov_generate *)

\* C12: markov_generate owns its random generator, so the process-wide
\* generator state after a call, seeded or not, is the state before it.
C12_OwnGenerator ==
  mkCall # None => rng = mkCall[1].before

\* the keys of a graph and the next-states listed in the row of a key
GraphKeys(trans) == {trans[k][1] : k \in 1..Len(trans)}
NextStatesOf(trans, key) ==
  UNION {{trans[k][2][j][1] : j \in 1..Len(trans[k][2])} :
           k \in {i \in 1..Len(trans) : trans[i][1] = key}}

\* every row of the graph has a positive weight sum
RowsPositive(trans) ==
  \A k \in 1..Len(trans) : SumWeights(trans[k][2], 1) > 0

\* C13: in a walk every token after the first is one of the next-states
\* listed in the row of the token before it, or, when that token has no row
\* (a dead end, or a start state that is no key), one of the next-states of
\* the row of the graph's first key; the walk raises no error.
C13_WalkFollowsRows ==
  (mkCall # None /\ RowsPositive(mkCall[1].args.trans)) =>
    LET trans == mkCall[1].args.trans
        seq == mkCall[1].result.seq
        From(tok) == IF tok \in GraphKeys(trans) THEN tok ELSE trans[1][1]
    IN  /\ mkCall[1].result.ok
        /\ \A k \in 1..(Len(seq) - 1) :
             seq[k + 1] \in NextStatesOf(trans, From(seq[k]))

\* a walk started on a state that is no key stepped on to the dead end bVII
\* and went on from there
C13_Witness ==
  /\ mkCall # None /\ mkCall[1].result.ok
  /\ mkCall[1].args.trans = GraphDeadEnd
  /\ mkCall[1].args.start = Some(dbVI)
  /\ mkCall[1].result.seq[1] = dbVI
  /\ Len(mkCall[1].result.seq) = MaxLength
  /\ mkCall[1].result.seq[2] = dbVII

-----------------------------------------------------------------------------
(* Claims about _cycle_to_five *)

\* the list main hands to section s before any normalization: the whole
\* sequence without routing; with routing the in-mode or the borrowed list
ListFor(s) ==
  IF args.borrowed_to_custom = None THEN deg_seq
  ELSE LET in_mode == split[1][1]
           borrowed == split[1][2]
       IN  IF s = "diatonic" THEN in_mode
           ELSE IF s = args.borrowed_to_custom[1]
             THEN (IF borrowed = <<>> THEN in_mode ELSE borrowed)
             ELSE (IF in_mode = <<>> THEN borrowed ELSE in_mode)

\* C14: the columns of every section are exactly five: the fallback
\* I V vi IV ii for an empty list, entry i = list[i mod len] for a list
\* shorter than five, the first five entries of a longer one; normalizing
\* them again changes nothing, so the routing path (normalized when stored,
\* and again when emitted) shows the same columns as one normalization.
C14_FiveColumns ==
  pc \in {"routed", "emitted", "written"} =>
    \A n \in 1..Len(sections) :
      LET raw == ListFor(sections[n])
          stored == ColumnsOf(sections[n])
          shown == _cycle_to_five(stored)
      IN  /\ Len(shown) = 5
          /\ shown = (IF raw = <<>> THEN <<dI, dV, dvi, dIV, dii>>
                      ELSE [i \in 1..5 |-> raw[((i - 1) % Len(raw)) + 1]])
          /\ Len(raw) >= 5 => shown = SubSeq(raw, 1, 5)
          /\ _cycle_to_five(shown) = shown
          /\ args.borrowed_to_custom # None => stored = _cycle_to_five(raw)
          /\ text # None =>
               \A i \in 1..5 :
                 text[1][31 * (n - 1) + 2 + i].id % 10
                   = RowMapping(DropTrailing(upper(DropLeading(shown[i], Accidentals)),
                                             {Dim}))

\* a routed run wrote three sections whose lists of two and of one degree
\* were repeated to five columns
C14_Witness ==
  /\ pc = "written" /\ args.borrowed_to_custom # None
  /\ Len(sections) = 3
  /\ Len(split[1][1]) = 2 /\ Len(split[1][2]) = 1
  /\ split[1][1][1] # split[1][1][2]
  /\ Len(ColumnsOf("diatonic")) = 5
  /\ ColumnsOf("diatonic")[5] = split[1][1][1]

=============================================================================
